---- MODULE Spec2Model ----
(***************************************************************************)
(* pitchbox backend: the two FastAPI handlers of backend/voiceover.py      *)
(* (generate_audio, upload_tigris) and the two object-store helpers of     *)
(* backend/tigris.py (upload_to_tigris, list_and_read_script), run by one  *)
(* asyncio event loop against a local filesystem and one bucket.           *)
(***************************************************************************)
EXTENDS Naturals, Sequences, FiniteSets

\* ---------------------------------------------------------------- bounds
NumReq == 3        \* request slots served at once by the event loop
MaxLen == 2        \* longest uploaded file, in bytes
MaxChunks == 2     \* longest synthesis stream, in chunks

Reqs == 1..NumReq

\* Bytes of uploaded files: 'A', and the two bytes of U+00E9 in UTF-8.
ScriptBytes == {65, 195, 169}
\* Bytes of synthesized audio.
AudioBytes == {1, 2}

RECURSIVE SeqsUpTo(_, _)
SeqsUpTo(S, n) ==
  IF n = 0 THEN {<<>>}
  ELSE LET shorter == SeqsUpTo(S, n - 1)
       IN  shorter \cup {Append(s, x) : s \in {t \in shorter : Len(t) = n - 1}, x \in S}

Contents == SeqsUpTo(ScriptBytes, MaxLen)
Chunk == {<<>>} \cup {<<b>> : b \in AudioBytes}
\* A synthesis stream: the chunks it yields, and whether it then raises.
Streams == [chunks : SeqsUpTo(Chunk, MaxChunks), err : BOOLEAN]

\* ------------------------------------------------------- Python values
None == [t |-> "None", v |-> <<>>]
Str(s) == [t |-> "str", v |-> s]
Truthy(x) == IF x.t = "None" THEN FALSE ELSE Len(x.v) > 0

\* The outcome of a call: a returned value or a raised exception.
Ret(x) == [raised |-> FALSE, val |-> x, exc |-> "none"]
Raise(e) == [raised |-> TRUE, val |-> None, exc |-> e]

\* A file or object that may be absent.
NoFile == [present |-> FALSE, body |-> <<>>]
File(b) == [present |-> TRUE, body |-> b]

\* ------------------------------------------------------------ constants
TempPath == "./temp_script.txt"
AudioPath == "./audio/output.mp3"
Paths == {TempPath, AudioPath}
ScriptKey == "script.txt"
AudioKey == "output.mp3"
Keys == {ScriptKey, AudioKey}

\* ---------------------------------------------------------------- state
VARIABLES
  req,       \* per request: the handler's position, locals and response
  running,   \* the request the event loop is executing, 0 when it is free
  fs,        \* local filesystem: path -> file
  bucket,    \* the bucket "pitchbox": key -> object
  lastUp     \* the request content of the latest completed upload of script.txt

vars == <<req, running, fs, bucket, lastUp>>

NoAudio == [chunks |-> <<>>, err |-> FALSE]

\* pc: idle, us_await, us_suspended, us_write, us_upload, us_remove, us_return,
\* ga_convert, ga_write, ga_upload, ga_return, responding.
\* content, f, success, script_text, audio are the handlers' locals (f is closed,
\* open on the file temp_path names, or unlinked: open on a file whose name was
\* removed, which no path reaches any more); text is the
\* argument convert was called with; uploaded, sent and netfail record what the
\* request's storage calls did.
IdleReq ==
  [pc |-> "idle", kind |-> "none", content |-> <<>>, f |-> "closed", success |-> None,
   script_text |-> None, text |-> None, audio |-> NoAudio, response |-> "none",
   uploaded |-> FALSE, sent |-> NoFile, netfail |-> FALSE]

\* The handler has returned resp, or an exception resp has left it: the
\* framework is about to answer.
Finished(q, resp) == [q EXCEPT !.pc = "responding", !.response = resp]

\* ------------------------------------------------------------- UTF-8
IsCont(b) == b >= 128 /\ b <= 191

\* bytes.decode('utf-8'), strict: the code points, or ok = FALSE for
\* UnicodeDecodeError.
RECURSIVE Utf8Decode(_)
Utf8Decode(b) ==
  IF Len(b) = 0 THEN [ok |-> TRUE, val |-> <<>>]
  ELSE
    LET b0 == b[1]
        n == IF b0 < 128 THEN 1
             ELSE IF b0 >= 194 /\ b0 <= 223 THEN 2
             ELSE IF b0 >= 224 /\ b0 <= 239 THEN 3
             ELSE IF b0 >= 240 /\ b0 <= 244 THEN 4
             ELSE 0
    IN
    IF n = 0 \/ Len(b) < n THEN [ok |-> FALSE, val |-> <<>>]
    ELSE
      LET conts == \A i \in 2..n : IsCont(b[i])
          second == CASE b0 = 224 -> b[2] >= 160
                      [] b0 = 237 -> b[2] <= 159
                      [] b0 = 240 -> b[2] >= 144
                      [] b0 = 244 -> b[2] <= 143
                      [] OTHER -> TRUE
          cp == CASE n = 1 -> b0
                  [] n = 2 -> (b0 - 192) * 64 + (b[2] - 128)
                  [] n = 3 -> (b0 - 224) * 4096 + (b[2] - 128) * 64 + (b[3] - 128)
                  [] n = 4 -> (b0 - 240) * 262144 + (b[2] - 128) * 4096
                              + (b[3] - 128) * 64 + (b[4] - 128)
          rest == Utf8Decode(SubSeq(b, n + 1, Len(b)))
      IN
      IF conts /\ second /\ rest.ok
      THEN [ok |-> TRUE, val |-> <<cp>> \o rest.val]
      ELSE [ok |-> FALSE, val |-> <<>>]

\* -------------------------------------------------------- object store
\* tigris.upload_to_tigris: s3.upload_file inside try/except; the function
\* has no return statement.  file is the local file at file_path, up tells
\* whether the endpoint answers.
upload_to_tigris(file, up) ==
  [uploaded |-> file.present /\ up,
   body |-> file.body,
   ret |-> Ret(None)]

\* list_and_read_script with the object decoded as latin-1 (one code point per
\* byte) instead of UTF-8.
list_and_read_script_latin1(b, up) ==
  LET obj == b[ScriptKey]
  IN  IF up /\ obj.present THEN Ret(Str(obj.body)) ELSE Ret(None)

\* list_and_read_script without its try/except: the failure leaves the function.
list_and_read_script_uncaught(b, up) ==
  LET obj == b[ScriptKey]
      dec == Utf8Decode(obj.body)
  IN  IF ~up \/ ~obj.present THEN Raise("ClientError")
      ELSE IF ~dec.ok THEN Raise("UnicodeDecodeError")
      ELSE Ret(Str(dec.val))

\* tigris.list_and_read_script: get_object + decode inside try/except.
list_and_read_script(b, up) ==
  LET obj == b[ScriptKey]
      dec == Utf8Decode(obj.body)
  IN  IF up /\ obj.present /\ dec.ok THEN Ret(Str(dec.val)) ELSE Ret(None)

\* ------------------------------------------------------------ filesystem
\* open(p, "wb"): create the file, or truncate the one that exists.
OpenWb(files, p) == [files EXCEPT ![p] = File(<<>>)]

\* write(b) through a handle opened at offset 0, on a file holding old.
WriteAt0(old, b) ==
  IF Len(b) >= Len(old) THEN b ELSE b \o SubSeq(old, Len(b) + 1, Len(old))

\* f.write(b) and close: the bytes reach the file temp_path names only if the
\* handle is still open on that file.
WriteTemp(files, handle, b) ==
  IF handle = "open"
  THEN [files EXCEPT ![TempPath] = File(WriteAt0(files[TempPath].body, b))]
  ELSE files

\* os.remove(temp_path): the name is gone, the handles open on the file keep it.
Unlink(rq) ==
  [q \in Reqs |-> IF rq[q].f = "open" THEN [rq[q] EXCEPT !.f = "unlinked"] ELSE rq[q]]

\* The bytes generate_audio writes: the non-empty chunks, in order.
RECURSIVE Written(_)
Written(chunks) ==
  IF Len(chunks) = 0 THEN <<>>
  ELSE (IF Len(chunks[1]) > 0 THEN chunks[1] ELSE <<>>) \o Written(Tail(chunks))

\* ------------------------------------------------------------------ Init
Init ==
  /\ req = [r \in Reqs |-> IdleReq]
  /\ running = 0
  /\ fs = [p \in Paths |-> NoFile]
  /\ bucket = [k \in Keys |-> NoFile]
  /\ lastUp = NoFile

CanStart(r) == running = 0 /\ req[r].pc = "idle"
At(r, l) == running = r /\ req[r].pc = l

\* ------------------------------------------------- POST /upload-tigris
\* with open(temp_path, "wb") as f:
US_open(r) ==
  /\ CanStart(r)
  /\ fs' = OpenWb(fs, TempPath)
  /\ req' = [req EXCEPT ![r] = [IdleReq EXCEPT !.pc = "us_await", !.kind = "US",
                                              !.f = "open"]]
  /\ running' = r
  /\ UNCHANGED <<bucket, lastUp>>

\* await file.read() hands the event loop back.
US_suspend(r) ==
  /\ At(r, "us_await")
  /\ req' = [req EXCEPT ![r].pc = "us_suspended"]
  /\ running' = 0
  /\ UNCHANGED <<fs, bucket, lastUp>>

\* content = await file.read(): at once, or when the loop resumes the request.
US_read(r, c) ==
  /\ (At(r, "us_await") \/ (running = 0 /\ req[r].pc = "us_suspended"))
  /\ req' = [req EXCEPT ![r].pc = "us_write", ![r].content = c]
  /\ running' = r
  /\ UNCHANGED <<fs, bucket, lastUp>>

\* f.write(content), and the with block closes f; ok tells whether the local
\* write succeeds.
US_write(r, ok) ==
  /\ At(r, "us_write")
  /\ LET q == req[r]
         closed == [q EXCEPT !.f = "closed"]
     IN  IF ok
         THEN /\ req' = [req EXCEPT ![r] = [closed EXCEPT !.pc = "us_upload"]]
              /\ fs' = WriteTemp(fs, q.f, q.content)
         ELSE /\ req' = [req EXCEPT ![r] = Finished(closed, "OSError")]
              /\ fs' = fs
  /\ UNCHANGED <<running, bucket, lastUp>>

\* success = upload_to_tigris(temp_path, bucket_name, object_name)
US_upload(r, up) ==
  /\ At(r, "us_upload")
  /\ LET file == fs[TempPath]
         res == upload_to_tigris(file, up)
         q == [req[r] EXCEPT !.uploaded = res.uploaded,
                             !.sent = IF res.uploaded THEN File(res.body) ELSE NoFile,
                             !.netfail = ~up]
     IN  /\ bucket' = IF res.uploaded THEN [bucket EXCEPT ![ScriptKey] = File(res.body)]
                      ELSE bucket
         /\ lastUp' = IF res.uploaded THEN File(req[r].content) ELSE lastUp
         /\ req' = [req EXCEPT ![r] =
                      IF res.ret.raised THEN Finished(q, res.ret.exc)
                      ELSE [q EXCEPT !.pc = "us_remove", !.success = res.ret.val]]
  /\ UNCHANGED <<running, fs>>

\* os.remove(temp_path)
US_remove(r) ==
  /\ At(r, "us_remove")
  /\ IF ~fs[TempPath].present
     THEN /\ req' = [req EXCEPT ![r] = Finished(req[r], "FileNotFoundError")]
          /\ fs' = fs
     ELSE /\ req' = [Unlink(req) EXCEPT ![r].pc = "us_return"]
          /\ fs' = [fs EXCEPT ![TempPath] = NoFile]
  /\ UNCHANGED <<running, bucket, lastUp>>

\* if success: return {...} else: return {..., "error": True}
US_return(r) ==
  /\ At(r, "us_return")
  /\ req' = [req EXCEPT ![r] = Finished(req[r], IF Truthy(req[r].success)
                                                THEN "ok" ELSE "error")]
  /\ UNCHANGED <<running, fs, bucket, lastUp>>

\* ------------------------------------------------- GET /generate-audio
\* script_text = list_and_read_script(bucket_name="pitchbox")
GA_fetch(r, up) ==
  /\ CanStart(r)
  /\ LET res == list_and_read_script(bucket, up)
         q == [IdleReq EXCEPT !.kind = "GA", !.netfail = ~up]
     IN  req' = [req EXCEPT ![r] =
                   IF res.raised THEN Finished(q, res.exc)
                   ELSE [q EXCEPT !.pc = "ga_convert", !.script_text = res.val]]
  /\ running' = r
  /\ UNCHANGED <<fs, bucket, lastUp>>

\* generate_audio with the conversion awaited (an async client): the event loop
\* is handed back between the fetch and the upload.
GA_convert_awaited(r) ==
  /\ At(r, "ga_convert")
  /\ req' = [req EXCEPT ![r].pc = "ga_write", ![r].text = req[r].script_text]
  /\ running' = 0
  /\ UNCHANGED <<fs, bucket, lastUp>>

\* audio = client.text_to_speech.convert(text=script_text, ...): a lazy stream,
\* nothing is requested from the vendor before the stream is iterated.
GA_convert(r) ==
  /\ At(r, "ga_convert")
  /\ req' = [req EXCEPT ![r].pc = "ga_write", ![r].text = req[r].script_text]
  /\ running' = r
  /\ UNCHANGED <<fs, bucket, lastUp>>

\* with open(output_path, "wb") as f: for chunk in audio: if chunk: f.write(chunk)
\* a is what the vendor streams, ok tells whether the local writes succeed.
GA_write(r, a, ok) ==
  /\ At(r, "ga_write")
  /\ LET o == OpenWb(fs, AudioPath)
         q == [req[r] EXCEPT !.audio = a]
     IN  /\ fs' = IF ok
                  THEN [o EXCEPT ![AudioPath] = File(WriteAt0(o[AudioPath].body, Written(a.chunks)))]
                  ELSE o
         /\ req' = [req EXCEPT ![r] =
                      IF ~ok THEN Finished(q, "OSError")
                      ELSE IF a.err THEN Finished(q, "ApiError")
                      ELSE [q EXCEPT !.pc = "ga_upload"]]
  /\ UNCHANGED <<running, bucket, lastUp>>

\* upload_to_tigris(file_path=output_path, ..., object_name="output.mp3")
GA_upload(r, up) ==
  /\ At(r, "ga_upload")
  /\ LET file == fs[AudioPath]
         res == upload_to_tigris(file, up)
         q == [req[r] EXCEPT !.uploaded = res.uploaded,
                             !.sent = IF res.uploaded THEN File(res.body) ELSE NoFile,
                             !.netfail = req[r].netfail \/ ~up]
     IN  /\ bucket' = IF res.uploaded THEN [bucket EXCEPT ![AudioKey] = File(res.body)]
                      ELSE bucket
         /\ req' = [req EXCEPT ![r] =
                      IF res.ret.raised THEN Finished(q, res.ret.exc)
                      ELSE [q EXCEPT !.pc = "ga_return"]]
  /\ UNCHANGED <<running, fs, lastUp>>

\* return {"message": "Audio generated and uploaded successfully."}
GA_return(r) ==
  /\ At(r, "ga_return")
  /\ req' = [req EXCEPT ![r] = Finished(req[r], "ok")]
  /\ UNCHANGED <<running, fs, bucket, lastUp>>

\* The framework answers the client (the handler's return value, or a 500 for
\* an exception that left the handler); the request and its locals are gone.
Respond(r) ==
  /\ At(r, "responding")
  /\ req' = [req EXCEPT ![r] = IdleReq]
  /\ running' = 0
  /\ UNCHANGED <<fs, bucket, lastUp>>

\* ------------------------------------------------------------------ Next
\* One step of request r; C are the files a client may send, S the streams
\* the vendor may answer with.
Step(r, C, S) ==
  \/ US_open(r)
  \/ US_suspend(r)
  \/ \E c \in C : US_read(r, c)
  \/ \E ok \in BOOLEAN : US_write(r, ok)
  \/ \E up \in BOOLEAN : US_upload(r, up)
  \/ US_remove(r)
  \/ US_return(r)
  \/ \E up \in BOOLEAN : GA_fetch(r, up)
  \/ GA_convert(r)
  \/ \E a \in S, ok \in BOOLEAN : GA_write(r, a, ok)
  \/ \E up \in BOOLEAN : GA_upload(r, up)
  \/ GA_return(r)
  \/ Respond(r)

\* Sample payloads.
SampleContents == {<<65>>, <<195, 169>>}
SampleStreams ==
  {[chunks |-> <<<<1>>, <<2>>>>, err |-> FALSE],
   [chunks |-> <<<<2>>, <<>>>>, err |-> FALSE],
   [chunks |-> <<<<1>>>>, err |-> TRUE]}

\* Several clients, sample payloads: the event loop interleaves the requests
\* at their awaits.
Next == \E r \in Reqs : Step(r, SampleContents, SampleStreams)

Spec == Init /\ [][Next]_vars

\* One client that sends its next request after the response to the last one.
Client == CHOOSE r \in Reqs : \A q \in Reqs : r <= q

\* ... with every file within the bounds.
ScriptNext == Step(Client, Contents, SampleStreams)

ScriptSpec == Init /\ [][ScriptNext]_vars

\* ... with every synthesis stream within the bounds.
AudioNext == Step(Client, SampleContents, Streams)

AudioSpec == Init /\ [][AudioNext]_vars

\* ---------------------------------------------------------- properties
\* Request r, of kind k, has left its handler and is being answered.
Responding(r, k) == req[r].pc = "responding" /\ req[r].kind = k

\* C1: GenerateAudio answers with the success message only if this request
\* uploaded a non-empty artifact under output.mp3; after a failed upload or an
\* upload of zero bytes it answers with a failure.
C1_SuccessOnlyIfUploaded ==
  \A r \in Reqs :
    (Responding(r, "GA") /\ req[r].response = "ok")
      => (req[r].uploaded /\ Len(req[r].sent.body) > 0)

\* C2: UploadScript reports success exactly when the upload of script.txt
\* succeeded (no error flag after a successful upload, the error flag after a
\* failed one), and after a successful upload of an empty file the bucket holds
\* a zero-length script.txt.
C2_ResponseMatchesUpload ==
  \A r \in Reqs :
    (Responding(r, "US") /\ req[r].response \in {"ok", "error"})
      => /\ (req[r].response = "ok") <=> req[r].uploaded
         /\ (req[r].uploaded /\ req[r].content = <<>>) => bucket[ScriptKey] = File(<<>>)

\* C3: when a request has completed, by a response or by a fault, the local
\* file it created (./temp_script.txt for UploadScript, ./audio/output.mp3 for
\* GenerateAudio) no longer exists.
C3_NoTempFileLeft ==
  \A r \in Reqs :
    /\ Responding(r, "US") => ~fs[TempPath].present
    /\ Responding(r, "GA") => ~fs[AudioPath].present

\* Every request has completed.
Quiescent == \A r \in Reqs : req[r].pc = "idle"

\* C4: script.txt is last-writer-wins: once every request has completed it
\* holds the content of the request whose upload completed last, and at no time
\* does it hold anything but the whole content of the request that uploaded last.
C4_LastWriterWins ==
  /\ (Quiescent /\ lastUp.present) => bucket[ScriptKey] = lastUp
  /\ lastUp.present => bucket[ScriptKey] = lastUp

\* C5: round trip: after an upload of valid UTF-8 content c that succeeded, a
\* fetch that downloads script.txt, with no other upload in between, returns c
\* decoded as UTF-8 (the two bytes C3 A9 come back as the one character U+00E9).
C5_RoundTrip ==
  \A r \in Reqs :
    (req[r].kind = "GA" /\ req[r].pc = "ga_convert" /\ ~req[r].netfail
     /\ lastUp.present /\ Utf8Decode(lastUp.body).ok)
      => /\ req[r].script_text = Str(Utf8Decode(lastUp.body).val)
         /\ lastUp.body = <<195, 169>> => req[r].script_text.v = <<233>>
         /\ lastUp.body = <<65>> => req[r].script_text.v = <<65>>

C5_Witness ==
  \E r \in Reqs :
    /\ req[r].kind = "GA" /\ req[r].pc = "ga_convert" /\ ~req[r].netfail
    /\ lastUp = File(<<195, 169>>)
    /\ req[r].script_text = Str(<<233>>)

\* C6: when the storage endpoint is unreachable at the fetch or at the upload
\* of a GenerateAudio request, the handler answers with an error, not with the
\* success message, and the request leaves no partial output.mp3 in the bucket.
C6_UnreachableIsAnError ==
  \A r \in Reqs :
    (Responding(r, "GA") /\ req[r].netfail)
      => /\ req[r].response # "ok"
         /\ req[r].uploaded => req[r].sent.body = Written(req[r].audio.chunks)

\* C7: upload_to_tigris returns a truthy value when the object was uploaded and
\* a falsy one when the upload failed.
C7_ResultTellsSuccess ==
  \A r \in Reqs :
    (req[r].kind = "US" /\ req[r].pc = "us_remove")
      => (Truthy(req[r].success) <=> req[r].uploaded)

\* The fetch of request r could not download or decode script.txt.
FetchFailed(r) ==
  req[r].netfail \/ ~bucket[ScriptKey].present \/ ~Utf8Decode(bucket[ScriptKey].body).ok

\* C8: list_and_read_script returns script.txt decoded as UTF-8 when the object
\* can be downloaded and decoded, and None, without raising, when the download
\* or the decoding fails; generate_audio hands that result, None included, to
\* the synthesis call unchecked.
C8_FetchNeverRaises ==
  \A r \in Reqs :
    /\ (req[r].kind = "GA" /\ req[r].pc = "ga_convert")
         => req[r].script_text = IF FetchFailed(r) THEN None
                                 ELSE Str(Utf8Decode(bucket[ScriptKey].body).val)
    /\ (req[r].kind = "GA" /\ req[r].pc = "ga_write") => req[r].text = req[r].script_text
    /\ Responding(r, "GA") => req[r].response \in {"ok", "OSError", "ApiError"}

C8_Witness ==
  \E r \in Reqs :
    /\ req[r].kind = "GA" /\ req[r].pc = "ga_write"
    /\ ~req[r].netfail /\ bucket[ScriptKey].present
    /\ ~Utf8Decode(bucket[ScriptKey].body).ok
    /\ req[r].script_text = None /\ req[r].text = None

\* C9: concurrent UploadScript requests do not disturb each other through
\* ./temp_script.txt: every request whose upload call reaches the store uploads
\* exactly the bytes it received, and no request ends in FileNotFoundError from
\* os.remove.
C9_NoTempFileRace ==
  \A r \in Reqs :
    /\ (req[r].kind = "US" /\ req[r].pc = "us_remove" /\ ~req[r].netfail)
         => (req[r].uploaded /\ req[r].sent = File(req[r].content))
    /\ Responding(r, "US") => req[r].response # "FileNotFoundError"

\* generate_audio between its fetch and its upload.
GAMid == {"ga_convert", "ga_write", "ga_upload"}

\* The local file and the uploaded object hold the non-empty chunks of the
\* request's own stream, in order.
C10_OwnChunks ==
  \A r \in Reqs :
    /\ req[r].pc = "ga_upload" => fs[AudioPath] = File(Written(req[r].audio.chunks))
    /\ (req[r].pc = "ga_return" /\ req[r].uploaded)
         => /\ req[r].sent = File(Written(req[r].audio.chunks))
            /\ bucket[AudioKey] = req[r].sent
    /\ (Responding(r, "GA") /\ req[r].response = "ApiError")
         => fs[AudioPath] = File(Written(req[r].audio.chunks))

\* A step taken while request r is between its fetch and its upload changes
\* no other request.
C10_OthersWait ==
  \A r \in Reqs :
    req[r].pc \in GAMid => \A q \in Reqs \ {r} : req'[q] = req[q]

\* C10: generate_audio has no suspension point: while a request is between its
\* fetch and its upload no other request takes a step; what it uploads as
\* output.mp3 is the non-empty chunks of its own stream, in order, and
\* ./audio/output.mp3 holds the chunks of one request only.
C10_Atomic == []C10_OwnChunks /\ [][C10_OthersWait]_vars

C10_Witness ==
  \E r \in Reqs, q \in Reqs :
    /\ req[r].pc = "ga_return" /\ req[r].uploaded
    /\ req[r].sent = File(<<1, 2>>)
    /\ req[q].pc = "us_suspended"

====
